---- MODULE Spec2Model ----
(***************************************************************************)
(* Credential store (pkg/auth/store.go) and multi-account service registry *)
(* (pkg/registry/registry.go) of go-google-mcp.                            *)
(*                                                                         *)
(* An account name is a sequence of characters; the empty sequence is the  *)
(* empty string.  A path below the config directory is a sequence of       *)
(* components; every component is itself a sequence of symbols, so that    *)
(* account names and the fixed file names live in one type.                *)
(***************************************************************************)
EXTENDS Integers, Sequences, FiniteSets, TLC

VARIABLES
    fs,            \* the config area on disk: [dirs, files]
    storeRes,      \* outcome of the last credential-store call
    opCount,       \* number of credential-store calls made so far
    saved,         \* history: the tokens saved in every slot, in order
    multiAccount,  \* Registry.multiAccount
    legacy,        \* Registry.legacy
    accounts,      \* Registry.accounts (a Go map: DOMAIN = keys present)
    mu,            \* Registry.mu: NoHolder or the caller holding it
    pc,            \* position of every caller inside Resolve
    arg,           \* the account parameter of the call in progress
    acct,          \* the local variable account (after auto-select)
    listed,        \* the local result of auth.ListAccounts()
    ret,           \* what Resolve returned to the caller
    factoryCalls,  \* history: NewServiceSet invocations per account
    built,         \* history: successful NewServiceSet results per account
    returned,      \* history: bundles handed out per account
    hit,           \* history: the call in progress was answered from the cache
    callsMade,     \* number of Resolve calls started
    attempts,      \* history: authorization attempts and NewServiceSet
                   \* invocations of the call in progress
    cmd,           \* position of handleAuthCommand ("none": Login is called
                   \* by other code of the process)
    login,         \* every call of auth.Login: position, locals, result
    req,           \* every request to /callback: the handler's position
    mux,           \* http.DefaultServeMux: whose closure serves /callback
    port,          \* who listens on 127.0.0.1:8085
    crashed,       \* the process died of a panic
    envDir,        \* the environment variable GO_GOOGLE_MCP_CONFIG_DIR
    BaseDir,       \* auth.BaseDir
    homeDir,       \* what os.UserHomeDir() finds: a path, or none
    hostFs,        \* the directories of the host
    dirRes,        \* outcome of the last GetConfigDir call, and the one before
    dirCalls,      \* number of GetConfigDir calls made so far
    notes,         \* the notes on the Keep server: id -> note
    nextNote,      \* the id the server gives the next note created
    upd,           \* outcome of the last UpdateNote call
    updCalls       \* number of UpdateNote calls made so far

storeVars == <<storeRes, opCount, saved>>
regVars == <<multiAccount, legacy, accounts, mu, pc, arg, acct, listed, ret,
             factoryCalls, built, returned, hit, callsMade, attempts>>
loginVars == <<cmd, login, req, mux, port, crashed>>
rootVars == <<envDir, BaseDir, homeDir, hostFs, dirRes, dirCalls>>
keepVars == <<notes, nextNote, upd, updCalls>>
vars == <<fs, storeRes, opCount, saved, multiAccount, legacy, accounts, mu,
          pc, arg, acct, listed, ret, factoryCalls, built, returned, hit,
          callsMade, attempts, cmd, login, req, mux, port, crashed, envDir,
          BaseDir, homeDir, hostFs, dirRes, dirCalls, notes, nextNote, upd,
          updCalls>>

----------------------------------------------------------------------------
(* Bounds *)

MaxNameLen == 2
MaxOps == 1
MaxSteps == 3
NumLogins == 2
MaxRedirects == 2
NumAccounts == 2
NumCallers == 2
MaxCalls == 2
MaxDirCalls == 3
MaxUpdates == 2

----------------------------------------------------------------------------
(* Values *)

Nil == [nil |-> TRUE]
NoErr == "nil"
NoPath == <<>>
NoHolder == 0

TokenFileName == <<"token.json">>
SecretsFileName == <<"client_secrets.json">>
AccountsDirName == <<"accounts">>

\* one ordinary character, the dot, both separators and the NUL byte
Chars == {"a", ".", "/", "\\", "NUL"}

Names == UNION {[1..n -> Chars] : n \in 0..MaxNameLen}

Letters == <<"a", "b", "c", "d">>

\* the accounts a user logs in with and names in tool calls
Accounts == {<<Letters[i]>> : i \in 1..NumAccounts}

\* "../a", an account parameter that would leave accounts/
BadAccount == <<".", ".", "/", "a">>

\* the account parameter of a tool call; <<>> is the omitted parameter
ResolveArgs == {<<>>} \cup Accounts \cup {BadAccount}

Callers == 1..NumCallers

\* oauth2.Token: a token after a code exchange, and one carrying only an
\* access token (no token type, no refresh token, the zero expiry time)
BearerToken == [AccessToken |-> "at1", TokenType |-> "Bearer",
                RefreshToken |-> "rt1", Expiry |-> 1]
BareToken == [AccessToken |-> "at2", TokenType |-> "", RefreshToken |-> "",
              Expiry |-> 0]

Tokens == {BearerToken, BareToken}
Secrets == {"S1", "S2"}

\* the content of a file: a JSON object (a function from its keys) or bytes
JsonObject(obj) == [json |-> obj]
Bytes(data) == [bytes |-> data]
IsJsonObject(content) == "json" \in DOMAIN content

\* a token.json that does not parse (cut short by a crash or a racing writer)
Garbage == Bytes("garbage")

EncodeTokenNoRefresh(token) ==
    JsonObject([k \in {"access_token", "expiry"}
                       \cup (IF token.TokenType # "" THEN {"token_type"} ELSE {})
                  |-> CASE k = "access_token" -> token.AccessToken
                        [] k = "token_type" -> token.TokenType
                        [] OTHER -> token.Expiry])

\* json.NewEncoder(f).Encode(token): token_type and refresh_token carry
\* omitempty; expiry is a struct, which omitempty never leaves out
EncodeToken(token) ==
    JsonObject([k \in {"access_token", "expiry"}
                       \cup (IF token.TokenType # "" THEN {"token_type"} ELSE {})
                       \cup (IF token.RefreshToken # "" THEN {"refresh_token"}
                                                        ELSE {})
                  |-> CASE k = "access_token" -> token.AccessToken
                        [] k = "token_type" -> token.TokenType
                        [] k = "refresh_token" -> token.RefreshToken
                        [] OTHER -> token.Expiry])

\* the value of a key of a JSON object, or the zero value of the field
Field(obj, key, zero) == IF key \in DOMAIN obj THEN obj[key] ELSE zero

\* json.NewDecoder(f).Decode(&token)
DecodeToken(content) ==
    IF ~IsJsonObject(content) THEN [err |-> "corrupt", val |-> Nil]
    ELSE [err |-> NoErr,
          val |-> [AccessToken |-> Field(content.json, "access_token", ""),
                   TokenType |-> Field(content.json, "token_type", ""),
                   RefreshToken |-> Field(content.json, "refresh_token", ""),
                   Expiry |-> Field(content.json, "expiry", 0)]]

\* strings.Contains
Contains(s, sub) ==
    \E i \in 1..(Len(s) - Len(sub) + 1) : SubSeq(s, i, i + Len(sub) - 1) = sub

validateAccountName(account) ==
    IF account = <<>> THEN "empty"
    ELSE IF \/ Contains(account, <<".", ".">>)
            \/ Contains(account, <<"/">>)
            \/ Contains(account, <<"\\">>)
            \/ Contains(account, <<"NUL">>)
         THEN "invalid"
         ELSE "ok"

IsValidationError(e) == e \in {"empty", "invalid"}

----------------------------------------------------------------------------
(* The file system below the config directory *)

\* filepath.Join: joins and cleans; "." components disappear.  Components
\* holding a separator or ".." never reach Join (validateAccountName).
Join(dir, comps) == dir \o SelectSeq(comps, LAMBDA c : c # <<".">>)

Prefixes(p) == {SubSeq(p, 1, k) : k \in 0..Len(p)}

EmptyFS == [dirs |-> {}, files |-> <<>>]

\* os.MkdirAll
MkdirAll(f, p) == [f EXCEPT !.dirs = f.dirs \cup Prefixes(p)]

FileExists(f, p) == p \in DOMAIN f.files

\* os.Create / os.WriteFile: the parent directory must exist
WriteFile(f, p, content) ==
    IF FileExists(f, p)
    THEN [f EXCEPT !.files[p] = content]
    ELSE [f EXCEPT !.files = [q \in DOMAIN f.files \cup {p} |->
                                 IF q = p THEN content ELSE f.files[q]]]

\* os.ReadDir: the names of the entries directly below directory p
ReadDirNames(f, p) ==
    {q[Len(p) + 1] : q \in {d \in f.dirs \cup DOMAIN f.files :
                               Len(d) = Len(p) + 1 /\ SubSeq(d, 1, Len(p)) = p}}

CharRank(c) ==
    CASE c = "NUL" -> 0 [] c = "." -> 1 [] c = "/" -> 2 [] c = "\\" -> 3
      [] c = "a" -> 4 [] c = "b" -> 5 [] c = "c" -> 6 [] OTHER -> 7

\* byte-wise order of file names, the order os.ReadDir lists them in
NameLess(x, y) ==
    \E i \in 1..(Len(x) + 1) :
        /\ i <= Len(y)
        /\ \A j \in 1..(i - 1) : x[j] = y[j]
        /\ (i = Len(x) + 1 \/ CharRank(x[i]) < CharRank(y[i]))

RECURSIVE SortNames(_)
SortNames(S) ==
    IF S = {} THEN <<>>
    ELSE LET m == CHOOSE x \in S : \A y \in S : x = y \/ NameLess(x, y)
         IN  <<m>> \o SortNames(S \ {m})

----------------------------------------------------------------------------
(* pkg/auth/store.go.  Every operation is a function of the disk, its      *)
(* arguments and ioOK (whether the operating system lets the config        *)
(* directory be created); it yields the new disk, the error, the value and *)
(* the sequence of steps taken ("validate" or a file-system access).       *)

Result(f, e, v, t) == [fs |-> f, err |-> e, val |-> v, trace |-> t]

FsSteps == {"mkdir", "readsrc", "create", "open", "read", "write", "readdir",
            "stat"}

GetConfigDir(f, ioOK) ==
    IF ioOK
    THEN Result(MkdirAll(f, <<>>), NoErr, <<>>, <<"mkdir">>)
    ELSE Result(f, "io", NoPath, <<"mkdir">>)

SaveToken(f, token, ioOK) ==
    LET c == GetConfigDir(f, ioOK) IN
    IF c.err # NoErr THEN Result(c.fs, c.err, Nil, c.trace)
    ELSE Result(WriteFile(c.fs, Join(c.val, <<TokenFileName>>),
                          EncodeToken(token)),
                NoErr, Nil, c.trace \o <<"create">>)

LoadToken(f, ioOK) ==
    LET c == GetConfigDir(f, ioOK)
        path == Join(c.val, <<TokenFileName>>)
    IN  IF c.err # NoErr THEN Result(c.fs, c.err, Nil, c.trace)
        ELSE IF ~FileExists(c.fs, path)
             THEN Result(c.fs, "notexist", Nil, c.trace \o <<"open">>)
             ELSE LET t == DecodeToken(c.fs.files[path]) IN
                  Result(c.fs, t.err, t.val, c.trace \o <<"open">>)

\* src is the content of the file at srcPath, or Nil when it cannot be read
SaveSecrets(f, src, ioOK) ==
    IF src = Nil THEN Result(f, "notexist", Nil, <<"readsrc">>)
    ELSE LET c == GetConfigDir(f, ioOK) IN
         IF c.err # NoErr
         THEN Result(c.fs, c.err, Nil, <<"readsrc">> \o c.trace)
         ELSE Result(WriteFile(c.fs, Join(c.val, <<SecretsFileName>>),
                               Bytes(src.data)),
                     NoErr, Nil, <<"readsrc">> \o c.trace \o <<"write">>)

LoadSecrets(f, ioOK) ==
    LET c == GetConfigDir(f, ioOK)
        path == Join(c.val, <<SecretsFileName>>)
    IN  IF c.err # NoErr THEN Result(c.fs, c.err, Nil, c.trace)
        ELSE IF ~FileExists(c.fs, path)
             THEN Result(c.fs, "notexist", Nil, c.trace \o <<"read">>)
             ELSE Result(c.fs, NoErr, c.fs.files[path], c.trace \o <<"read">>)

TokenDirsWithoutStat(f, accountsDir) ==
    SelectSeq(SortNames(ReadDirNames(f, accountsDir)),
              LAMBDA e : Join(accountsDir, <<e>>) \in f.dirs)

\* the entries of accounts/ that are directories holding a token file, in
\* the order os.ReadDir yields them
TokenDirs(f, accountsDir) ==
    SelectSeq(SortNames(ReadDirNames(f, accountsDir)),
              LAMBDA e : /\ Join(accountsDir, <<e>>) \in f.dirs
                         /\ FileExists(f, Join(accountsDir, <<e, TokenFileName>>)))

IsMultiAccount(f, ioOK) ==
    LET c == GetConfigDir(f, ioOK)
        accountsDir == Join(c.val, <<AccountsDirName>>)
    IN  IF c.err # NoErr THEN Result(c.fs, c.err, FALSE, c.trace)
        ELSE IF accountsDir \notin c.fs.dirs
             THEN Result(c.fs, NoErr, FALSE, c.trace \o <<"readdir">>)
             ELSE Result(c.fs, NoErr, Len(TokenDirs(c.fs, accountsDir)) > 0,
                         c.trace \o <<"readdir", "stat">>)

ListAccounts(f, ioOK) ==
    LET c == GetConfigDir(f, ioOK)
        accountsDir == Join(c.val, <<AccountsDirName>>)
    IN  IF c.err # NoErr THEN Result(c.fs, c.err, <<>>, c.trace)
        ELSE IF accountsDir \notin c.fs.dirs
             THEN Result(c.fs, NoErr, <<>>, c.trace \o <<"readdir">>)
             ELSE Result(c.fs, NoErr, TokenDirs(c.fs, accountsDir),
                         c.trace \o <<"readdir", "stat">>)

GetAccountDir(f, account, ioOK) ==
    LET v == validateAccountName(account) IN
    IF v # "ok" THEN Result(f, v, NoPath, <<"validate">>)
    ELSE LET c == GetConfigDir(f, ioOK)
             accountDir == Join(c.val, <<AccountsDirName, account>>)
         IN  IF c.err # NoErr
             THEN Result(c.fs, c.err, NoPath, <<"validate">> \o c.trace)
             ELSE Result(MkdirAll(c.fs, accountDir), NoErr, accountDir,
                         <<"validate">> \o c.trace \o <<"mkdir">>)

SaveTokenForAccount(f, account, token, ioOK) ==
    LET d == GetAccountDir(f, account, ioOK) IN
    IF d.err # NoErr THEN Result(d.fs, d.err, Nil, d.trace)
    ELSE Result(WriteFile(d.fs, Join(d.val, <<TokenFileName>>),
                          EncodeToken(token)),
                NoErr, Nil, d.trace \o <<"create">>)

LoadTokenForAccount(f, account, ioOK) ==
    LET d == GetAccountDir(f, account, ioOK)
        path == Join(d.val, <<TokenFileName>>)
    IN  IF d.err # NoErr THEN Result(d.fs, d.err, Nil, d.trace)
        ELSE IF ~FileExists(d.fs, path)
             THEN Result(d.fs, "notexist", Nil, d.trace \o <<"open">>)
             ELSE LET t == DecodeToken(d.fs.files[path]) IN
                  Result(d.fs, t.err, t.val, d.trace \o <<"open">>)

PerAccountNeverRead(f, perAccount) == FALSE

\* data, err := os.ReadFile(perAccount); err == nil
PerAccountRead(f, perAccount) == FileExists(f, perAccount)

LoadSecretsForAccount(f, account, ioOK) ==
    LET d == GetAccountDir(f, account, ioOK)
        perAccount == Join(d.val, <<SecretsFileName>>)
    IN  IF d.err # NoErr THEN Result(d.fs, d.err, Nil, d.trace)
        ELSE IF PerAccountRead(d.fs, perAccount)
             THEN Result(d.fs, NoErr, d.fs.files[perAccount],
                         d.trace \o <<"read">>)
             ELSE LET s == LoadSecrets(d.fs, ioOK) IN
                  Result(s.fs, s.err, s.val, d.trace \o <<"read">> \o s.trace)

SaveSecretsForAccount(f, account, src, ioOK) ==
    IF src = Nil THEN Result(f, "notexist", Nil, <<"readsrc">>)
    ELSE LET d == GetAccountDir(f, account, ioOK) IN
         IF d.err # NoErr THEN Result(d.fs, d.err, Nil, <<"readsrc">> \o d.trace)
         ELSE Result(WriteFile(d.fs, Join(d.val, <<SecretsFileName>>),
                               Bytes(src.data)),
                     NoErr, Nil, <<"readsrc">> \o d.trace \o <<"write">>)

----------------------------------------------------------------------------
(* Credential-store calls as actions *)

\* a Go map with key k set to v
MapPut(m, k, v) == [x \in DOMAIN m \cup {k} |-> IF x = k THEN v ELSE m[x]]

\* the slot of the legacy token <root>/token.json
LegacySlot == <<>>

SaveTokenOps == {"SaveToken", "SaveTokenForAccount"}

\* one call of a store operation, the max-th call being the last; token is
\* the token argument of a save and Nil otherwise.  The value returned is
\* recorded under the name of the operation, whose result type it has.
StoreCallUpTo(max, op, account, token, r) ==
    /\ opCount < max
    /\ fs' = r.fs
    /\ storeRes' = [op |-> op, account |-> account, err |-> r.err,
                    val |-> [x \in {op} |-> r.val], trace |-> r.trace]
    /\ opCount' = opCount + 1
    /\ saved' = IF op \in SaveTokenOps /\ r.err = NoErr
                THEN MapPut(saved, account,
                            Append(IF account \in DOMAIN saved
                                   THEN saved[account] ELSE <<>>, token))
                ELSE saved
    /\ UNCHANGED <<regVars, loginVars, rootVars, keepVars>>

StoreCall(op, account, r) == StoreCallUpTo(MaxOps, op, account, Nil, r)

\* the file at srcPath: unreadable, or a client-secrets file
SrcFiles == {Nil, [data |-> "S2"]}

CallGetAccountDir ==
    \E account \in Names, ioOK \in BOOLEAN :
        StoreCall("GetAccountDir", account, GetAccountDir(fs, account, ioOK))

CallSaveTokenForAccount ==
    \E account \in Names, token \in Tokens, ioOK \in BOOLEAN :
        StoreCallUpTo(MaxOps, "SaveTokenForAccount", account, token,
                      SaveTokenForAccount(fs, account, token, ioOK))

CallLoadTokenForAccount ==
    \E account \in Names, ioOK \in BOOLEAN :
        StoreCall("LoadTokenForAccount", account,
                  LoadTokenForAccount(fs, account, ioOK))

CallLoadSecretsForAccount ==
    \E account \in Names, ioOK \in BOOLEAN :
        StoreCall("LoadSecretsForAccount", account,
                  LoadSecretsForAccount(fs, account, ioOK))

CallSaveSecretsForAccount ==
    \E account \in Names, src \in SrcFiles, ioOK \in BOOLEAN :
        StoreCall("SaveSecretsForAccount", account,
                  SaveSecretsForAccount(fs, account, src, ioOK))

\* the disk after logins for the accounts in S, with or without the shared
\* client_secrets.json
RECURSIVE DiskWith(_, _)
DiskWith(S, shared) ==
    IF S = {}
    THEN IF shared THEN SaveSecrets(EmptyFS, [data |-> "S1"], TRUE).fs
                   ELSE EmptyFS
    ELSE LET a == CHOOSE x \in S : TRUE
         IN  SaveTokenForAccount(DiskWith(S \ {a}, shared), a, BearerToken, TRUE).fs

\* config areas the store operations start from: empty, after a login for
\* account "a", with only the directory of "a", and with secrets of its own
\* for "a"
InitStoreDisks ==
    LET a == <<"a">>
        loggedIn == DiskWith({a}, TRUE)
    IN  {EmptyFS, loggedIn, GetAccountDir(EmptyFS, a, TRUE).fs,
         SaveSecretsForAccount(loggedIn, a, [data |-> "S2"], TRUE).fs}

NoStoreRes == [op |-> "none", account |-> <<>>, err |-> NoErr,
               val |-> [none |-> Nil], trace |-> <<>>]

\* the value the last store call returned
StoreVal == storeRes.val[storeRes.op]

\* "." passes validateAccountName
DotAccount == <<".">>

\* the account names the token and secrets operations are called with
LoginNames == Accounts \cup {DotAccount}

StepSaveToken ==
    \E token \in Tokens, ioOK \in BOOLEAN :
        StoreCallUpTo(MaxSteps, "SaveToken", LegacySlot, token,
                      SaveToken(fs, token, ioOK))

StepLoadToken ==
    \E ioOK \in BOOLEAN :
        StoreCallUpTo(MaxSteps, "LoadToken", LegacySlot, Nil,
                      LoadToken(fs, ioOK))

StepSaveTokenForAccount ==
    \E account \in LoginNames, token \in Tokens, ioOK \in BOOLEAN :
        StoreCallUpTo(MaxSteps, "SaveTokenForAccount", account, token,
                      SaveTokenForAccount(fs, account, token, ioOK))

StepLoadTokenForAccount ==
    \E account \in LoginNames, ioOK \in BOOLEAN :
        StoreCallUpTo(MaxSteps, "LoadTokenForAccount", account, Nil,
                      LoadTokenForAccount(fs, account, ioOK))

StepGetAccountDir ==
    \E account \in LoginNames, ioOK \in BOOLEAN :
        StoreCallUpTo(MaxSteps, "GetAccountDir", account, Nil,
                      GetAccountDir(fs, account, ioOK))

StepIsMultiAccount ==
    \E ioOK \in BOOLEAN :
        StoreCallUpTo(MaxSteps, "IsMultiAccount", LegacySlot, Nil,
                      IsMultiAccount(fs, ioOK))

StepListAccounts ==
    \E ioOK \in BOOLEAN :
        StoreCallUpTo(MaxSteps, "ListAccounts", LegacySlot, Nil,
                      ListAccounts(fs, ioOK))

\* the client-secrets files a user copies into the store
SecretFiles == {[data |-> x] : x \in Secrets}

StepSaveSecrets ==
    \E src \in SecretFiles, ioOK \in BOOLEAN :
        StoreCallUpTo(MaxSteps, "SaveSecrets", LegacySlot, Nil,
                      SaveSecrets(fs, src, ioOK))

StepLoadSecrets ==
    \E ioOK \in BOOLEAN :
        StoreCallUpTo(MaxSteps, "LoadSecrets", LegacySlot, Nil,
                      LoadSecrets(fs, ioOK))

StepSaveSecretsForAccount ==
    \E account \in LoginNames, src \in SecretFiles, ioOK \in BOOLEAN :
        StoreCallUpTo(MaxSteps, "SaveSecretsForAccount", account, Nil,
                      SaveSecretsForAccount(fs, account, src, ioOK))

StepLoadSecretsForAccount ==
    \E account \in LoginNames, ioOK \in BOOLEAN :
        StoreCallUpTo(MaxSteps, "LoadSecretsForAccount", account, Nil,
                      LoadSecretsForAccount(fs, account, ioOK))

\* a config area in which the token file of account "a" does not parse
CorruptDisk ==
    LET d == GetAccountDir(EmptyFS, <<"a">>, TRUE) IN
    WriteFile(d.fs, Join(d.val, <<TokenFileName>>), Garbage)

----------------------------------------------------------------------------
(* pkg/registry/registry.go *)

ServiceOrder == <<"drive", "gmail", "calendar", "sheets", "people", "docs",
                  "tasks", "activity", "keep">>

Services == {ServiceOrder[i] : i \in 1..Len(ServiceOrder)}

\* the ServiceSet handed to NewLegacyRegistry
LegacyBundle == [id |-> <<>>, clients |-> {}]

\* the identity (address) of the next ServiceSet allocated for an account:
\* the account and how many were allocated for it before
NextId(account) == <<account, <<built[account] + 1>>>>

\* the clients made before the failAt-th constructor ran
MadeBefore(failAt) == {ServiceOrder[i] : i \in 1..(failAt - 1)}

NewServiceSetKeepsPartial(id, failAt) ==
    IF failAt = 0
    THEN [ss |-> [id |-> id, clients |-> Services], err |-> NoErr]
    ELSE [ss |-> [id |-> id, clients |-> MadeBefore(failAt)], err |-> NoErr]

\* NewServiceSet: the nine constructors run in order; failAt = 0 when none
\* of them fails, else the index of the first one that does
NewServiceSet(id, failAt) ==
    IF failAt = 0
    THEN [ss |-> [id |-> id, clients |-> Services], err |-> NoErr]
    ELSE [ss |-> Nil, err |-> ServiceOrder[failAt]]

\* auth.GetClientOptionsForAccount: loads the account's token and client
\* secrets from the credential store and parses the secrets into an OAuth
\* configuration (parseOK)
GetClientOptionsForAccount(f, account, ioOK, parseOK) ==
    LET t == LoadTokenForAccount(f, account, ioOK) IN
    IF t.err # NoErr THEN [fs |-> t.fs, err |-> t.err]
    ELSE LET s == LoadSecretsForAccount(t.fs, account, ioOK) IN
         IF s.err # NoErr THEN [fs |-> s.fs, err |-> s.err]
         ELSE IF ~parseOK THEN [fs |-> s.fs, err |-> "config"]
              ELSE [fs |-> s.fs, err |-> NoErr]

\* what Resolve returns: the kind of error, the bundle, for the
\* ambiguous-account error the accounts it lists, and for the auth error the
\* error it wraps (the causes wrapped by the other errors are left out)
Ok(ss) == [kind |-> "ok", ss |-> ss, info |-> <<>>, cause |-> NoErr]
Err(kind, info) == [kind |-> kind, ss |-> Nil, info |-> info, cause |-> NoErr]

NoRet == [kind |-> "none", ss |-> Nil, info |-> <<>>, cause |-> NoErr]

AuthErrorWithoutCause(err) == Err("auth", <<>>)

\* fmt.Errorf("auth for account %q: %w", account, err) (line 160)
AuthError(err) == [Err("auth", <<>>) EXCEPT !.cause = err]

NoAttempts == [auth |-> 0, factory |-> 0]
NoListed == [err |-> NoErr, val |-> <<>>]

IsLegacyNever == FALSE

IsLegacy == ~multiAccount

MuAlwaysAvailable == TRUE

MuAvailable == mu = NoHolder

CacheHasNever(account) == FALSE

\* ss, ok := r.accounts[account]
CacheHas(account) == account \in DOMAIN accounts

AutoSelectKeepsEmpty(list) == <<>>

\* case 1: account = accounts[0]
AutoSelect(list) == list[1]

ListCaseZeroAmbiguous(list) == IF Len(list) = 1 THEN "one" ELSE "many"

ListCaseFirstOfMany(list) == IF Len(list) = 0 THEN "none" ELSE "one"

\* the switch on len(accounts)
ListCase(list) ==
    IF Len(list) = 0 THEN "none" ELSE IF Len(list) = 1 THEN "one" ELSE "many"

\* Resolve entered (lines 129-134): the legacy registry answers at once
Resolve(p, account) ==
    /\ pc[p] = "idle"
    /\ callsMade < MaxCalls
    /\ callsMade' = callsMade + 1
    /\ arg' = [arg EXCEPT ![p] = account]
    /\ acct' = [acct EXCEPT ![p] = account]
    /\ IF IsLegacy
       THEN /\ ret' = [ret EXCEPT ![p] = Ok(legacy)]
            /\ pc' = [pc EXCEPT ![p] = "done"]
       ELSE /\ ret' = ret
            /\ pc' = [pc EXCEPT ![p] = IF account = <<>> THEN "list" ELSE "lock"]
    /\ UNCHANGED <<fs, storeVars, loginVars, rootVars, keepVars, multiAccount, legacy, accounts, mu, listed,
                   factoryCalls, built, returned, hit, attempts>>

\* account == "": auth.ListAccounts() and the switch (lines 134-147)
ResolveList(p) ==
    /\ pc[p] = "list"
    /\ \E ioOK \in BOOLEAN :
        LET r == ListAccounts(fs, ioOK) IN
        /\ fs' = r.fs
        /\ listed' = [listed EXCEPT ![p] = [err |-> r.err, val |-> r.val]]
        /\ IF r.err # NoErr
           THEN /\ ret' = [ret EXCEPT ![p] = Err("list", <<>>)]
                /\ pc' = [pc EXCEPT ![p] = "done"]
                /\ acct' = acct
           ELSE CASE ListCase(r.val) = "none" ->
                       /\ ret' = [ret EXCEPT ![p] = Err("noaccounts", <<>>)]
                       /\ pc' = [pc EXCEPT ![p] = "done"]
                       /\ acct' = acct
                  [] ListCase(r.val) = "one" ->
                       /\ acct' = [acct EXCEPT ![p] = AutoSelect(r.val)]
                       /\ pc' = [pc EXCEPT ![p] = "lock"]
                       /\ ret' = ret
                  [] OTHER ->
                       /\ ret' = [ret EXCEPT ![p] = Err("ambiguous", r.val)]
                       /\ pc' = [pc EXCEPT ![p] = "done"]
                       /\ acct' = acct
    /\ UNCHANGED <<storeVars, loginVars, rootVars, keepVars, multiAccount, legacy, accounts, mu, arg,
                   factoryCalls, built, returned, hit, callsMade, attempts>>

UnlockSkipped(p) == p

\* defer r.mu.Unlock() (line 150): runs on every return after r.mu.Lock()
Unlock(p) == NoHolder

\* r.mu.Lock() (line 149)
ResolveLock(p) ==
    /\ pc[p] = "lock"
    /\ MuAvailable
    /\ mu' = p
    /\ pc' = [pc EXCEPT ![p] = "lookup"]
    /\ UNCHANGED <<fs, storeVars, loginVars, rootVars, keepVars, multiAccount, legacy, accounts, arg, acct,
                   listed, ret, factoryCalls, built, returned, hit,
                   callsMade, attempts>>

\* the cache lookup (lines 152-154); the deferred Unlock runs on return
ResolveLookup(p) ==
    /\ pc[p] = "lookup"
    /\ IF CacheHas(acct[p])
       THEN /\ ret' = [ret EXCEPT ![p] = Ok(accounts[acct[p]])]
            /\ returned' = [returned EXCEPT ![acct[p]] = @ \cup {accounts[acct[p]]}]
            /\ hit' = [hit EXCEPT ![p] = TRUE]
            /\ mu' = Unlock(p)
            /\ pc' = [pc EXCEPT ![p] = "done"]
       ELSE /\ pc' = [pc EXCEPT ![p] = "auth"]
            /\ UNCHANGED <<ret, returned, hit, mu>>
    /\ UNCHANGED <<fs, storeVars, loginVars, rootVars, keepVars, multiAccount, legacy, accounts, arg, acct,
                   listed, factoryCalls, built, callsMade, attempts>>

\* auth.GetClientOptionsForAccount (lines 157-161)
ResolveAuth(p) ==
    /\ pc[p] = "auth"
    /\ \E ioOK \in BOOLEAN, parseOK \in BOOLEAN :
        LET o == GetClientOptionsForAccount(fs, acct[p], ioOK, parseOK) IN
        /\ fs' = o.fs
        /\ attempts' = [attempts EXCEPT ![p].auth = @ + 1]
        /\ IF o.err # NoErr
           THEN /\ ret' = [ret EXCEPT ![p] = AuthError(o.err)]
                /\ mu' = Unlock(p)
                /\ pc' = [pc EXCEPT ![p] = "done"]
           ELSE /\ pc' = [pc EXCEPT ![p] = "construct"]
                /\ UNCHANGED <<ret, mu>>
    /\ UNCHANGED <<storeVars, loginVars, rootVars, keepVars, multiAccount, legacy, accounts, arg, acct,
                   listed, factoryCalls, built, returned, hit, callsMade>>

AfterFailedBuildCachesNil(m, account) == MapPut(m, account, Nil)

\* what a failed NewServiceSet leaves in r.accounts: nothing
AfterFailedBuild(m, account) == m

AfterBuildNotStored(m, account, ss) == m

\* what a successful NewServiceSet leaves in r.accounts (line 166)
AfterBuild(m, account, ss) == MapPut(m, account, ss)

\* NewServiceSet, the insertion and the return (lines 162-167)
ResolveConstruct(p) ==
    /\ pc[p] = "construct"
    /\ \E failAt \in 0..Len(ServiceOrder) :
        LET n == NewServiceSet(NextId(acct[p]), failAt) IN
        /\ factoryCalls' = [factoryCalls EXCEPT ![acct[p]] = @ + 1]
        /\ attempts' = [attempts EXCEPT ![p].factory = @ + 1]
        /\ IF n.err # NoErr
           THEN /\ ret' = [ret EXCEPT ![p] = Err("services", <<>>)]
                /\ accounts' = AfterFailedBuild(accounts, acct[p])
                /\ UNCHANGED <<built, returned>>
           ELSE /\ accounts' = AfterBuild(accounts, acct[p], n.ss)
                /\ ret' = [ret EXCEPT ![p] = Ok(n.ss)]
                /\ built' = [built EXCEPT ![acct[p]] = @ + 1]
                /\ returned' = [returned EXCEPT ![acct[p]] = @ \cup {n.ss}]
    /\ mu' = Unlock(p)
    /\ pc' = [pc EXCEPT ![p] = "done"]
    /\ UNCHANGED <<fs, storeVars, loginVars, rootVars, keepVars, multiAccount, legacy, arg, acct, listed,
                   hit, callsMade>>

\* the caller takes the result and is free to call again
ResolveReturn(p) ==
    /\ pc[p] = "done"
    /\ pc' = [pc EXCEPT ![p] = "idle"]
    /\ arg' = [arg EXCEPT ![p] = <<>>]
    /\ acct' = [acct EXCEPT ![p] = <<>>]
    /\ listed' = [listed EXCEPT ![p] = NoListed]
    /\ ret' = [ret EXCEPT ![p] = NoRet]
    /\ hit' = [hit EXCEPT ![p] = FALSE]
    /\ attempts' = [attempts EXCEPT ![p] = NoAttempts]
    /\ UNCHANGED <<fs, storeVars, loginVars, rootVars, keepVars, multiAccount, legacy, accounts, mu,
                   factoryCalls, built, returned, callsMade>>

\* a login in another process stores a token for an account while the
\* server runs
ExternalLogin ==
    /\ \E a \in Accounts :
        fs' = SaveTokenForAccount(fs, a, BearerToken, TRUE).fs
    /\ fs' # fs
    /\ UNCHANGED <<storeVars, regVars, loginVars, rootVars, keepVars>>

----------------------------------------------------------------------------
(* pkg/auth/login.go and handleAuthCommand (cmd/go-google-mcp/main.go) *)

Logins == 1..NumLogins
Redirects == 1..MaxRedirects

\* holders of 127.0.0.1:8085 other than a Login of this process
NoLogin == 0
OtherProcess == -1

\* the code query parameter of a redirect: absent or present
Codes == {"", "code"}

NoResult == [kind |-> "none", cause |-> ""]

\* one call of Login: its position, its result, its context, its server,
\* the request its code came from, the token of the exchange, and history:
\* where it was when the context was cancelled, whether another Login was
\* awaiting its redirect when it was called, the exchanges attempted,
\* whether the exchange succeeded, and the states of the flow it went through
NewLogin == [pc |-> "idle", res |-> NoResult, ctxDone |-> FALSE,
             srv |-> "none", from |-> 0, token |-> Nil, cancelledIn |-> "",
             concurrent |-> FALSE, exchanges |-> 0, exchanged |-> FALSE,
             trail |-> <<"Idle">>]

\* one request to /callback: the handler's position, the query parameters,
\* the response written, the error for errChan, and where Login was when
\* the request arrived
NewRequest == [pc |-> "idle", state |-> "", code |-> "", resp |-> "",
               cause |-> "", during |-> ""]

\* the process neither panicked nor left through os.Exit or the end of main
Running == ~crashed /\ cmd \notin {"exit0", "exit1"}

\* Login returns err (lines 28, 36, 83, 85, 91, 96)
Failed(l, kind, cause) ==
    [l EXCEPT !.pc = "returned", !.res = [kind |-> kind, cause |-> cause],
              !.trail = Append(@, "Failed")]

\* some Login of the process is waiting in its select
AwaitingRedirect == \E j \in Logins : login[j].pc = "select"

\* Login from its entry to the select (lines 25-80): the client secrets are
\* parsed, the state token is drawn, the handler is registered on
\* http.DefaultServeMux, which panics when the pattern is already registered,
\* and the goroutine that will run ListenAndServe is started
Login(i) ==
    /\ Running
    /\ login[i].pc = "idle"
    /\ IF cmd = "none"
       THEN \A j \in 1..(i - 1) : login[j].pc # "idle"
       ELSE cmd = "login" /\ i = 1
    /\ \E parseOK \in BOOLEAN, randOK \in BOOLEAN :
        IF ~parseOK
        THEN /\ login' = [login EXCEPT ![i] = Failed(@, "parse", "")]
             /\ UNCHANGED <<mux, crashed>>
        ELSE IF ~randOK
        THEN /\ login' = [login EXCEPT ![i] = Failed(@, "state", "")]
             /\ UNCHANGED <<mux, crashed>>
        ELSE IF mux # NoLogin
        THEN /\ login' = [login EXCEPT ![i].pc = "panicked",
                                       ![i].res = [kind |-> "panic",
                                                   cause |-> ""],
                                       ![i].concurrent = AwaitingRedirect]
             /\ crashed' = TRUE
             /\ mux' = mux
        ELSE /\ login' = [login EXCEPT ![i].pc = "select",
                                       ![i].srv = "starting",
                                       ![i].trail = Append(@, "AwaitingRedirect")]
             /\ mux' = i
             /\ crashed' = crashed
    /\ UNCHANGED <<fs, storeVars, regVars, rootVars, keepVars, cmd, req, port>>

\* the goroutine of lines 66-70: server.ListenAndServe() binds the port or
\* fails, and a failure is sent on errChan
ListenAndServe(i) ==
    /\ Running
    /\ login[i].srv = "starting"
    /\ IF port = NoLogin
       THEN /\ port' = i
            /\ login' = [login EXCEPT ![i].srv = "listening"]
       ELSE /\ port' = port
            /\ login' = [login EXCEPT ![i].srv = "sendErr"]
    /\ UNCHANGED <<fs, storeVars, regVars, rootVars, keepVars, cmd, req, mux, crashed>>

StateAlwaysMatches(state) == TRUE

\* r.URL.Query().Get("state") != stateToken (line 48)
StateMatches(state) == state = "good"

CodeAlwaysFound(code) == TRUE

\* code == "" (line 56)
CodeFound(code) == code # ""

\* the handler of /callback (lines 46-64) up to its channel send, which
\* blocks until Login receives; the response it wrote reaches the browser
\* when the handler returns
Callback(r) ==
    /\ Running
    /\ req[r].pc = "idle"
    /\ port \in Logins
    /\ login[port].srv = "listening"
    /\ \E state \in {"good", "bad"}, code \in Codes :
        req' = [req EXCEPT ![r] =
                  IF ~StateMatches(state)
                  THEN [pc |-> "sendErr", state |-> state, code |-> code,
                        resp |-> "400 State token mismatch",
                        cause |-> "mismatch", during |-> login[mux].pc]
                  ELSE IF ~CodeFound(code)
                  THEN [pc |-> "sendErr", state |-> state, code |-> code,
                        resp |-> "Error: code not found in URL",
                        cause |-> "nocode", during |-> login[mux].pc]
                  ELSE [pc |-> "sendCode", state |-> state, code |-> code,
                        resp |-> "Success!", cause |-> "",
                        during |-> login[mux].pc]]
    /\ UNCHANGED <<fs, storeVars, regVars, rootVars, keepVars, cmd, login, mux, port, crashed>>

\* select, case authCode = <-codeChan (line 81): the handler of request r,
\* a closure of the Login registered on the mux, hands over its code
RecvCode(i, r) ==
    /\ Running
    /\ login[i].pc = "select"
    /\ mux = i
    /\ req[r].pc = "sendCode"
    /\ req' = [req EXCEPT ![r].pc = "done"]
    /\ login' = [login EXCEPT ![i].pc = "exchange", ![i].from = r,
                              ![i].trail = Append(@, "CodeReceived")]
    /\ UNCHANGED <<fs, storeVars, regVars, rootVars, keepVars, cmd, mux, port, crashed>>

\* select, case err := <-errChan (lines 82-83), the sender being a handler
RecvErr(i, r) ==
    /\ Running
    /\ login[i].pc = "select"
    /\ mux = i
    /\ req[r].pc = "sendErr"
    /\ req' = [req EXCEPT ![r].pc = "done"]
    /\ login' = [login EXCEPT ![i] = Failed(@, "server", req[r].cause)]
    /\ UNCHANGED <<fs, storeVars, regVars, rootVars, keepVars, cmd, mux, port, crashed>>

\* select, case err := <-errChan, the sender being the ListenAndServe
\* goroutine
RecvListenErr(i) ==
    /\ Running
    /\ login[i].pc = "select"
    /\ login[i].srv = "sendErr"
    /\ login' = [login EXCEPT ![i] = [Failed(@, "server", "bind")
                                          EXCEPT !.srv = "failed"]]
    /\ UNCHANGED <<fs, storeVars, regVars, rootVars, keepVars, cmd, req, mux, port, crashed>>

\* the caller's context is cancelled or times out; handleAuthCommand passes
\* context.Background(), which never is
Cancel(i) ==
    /\ Running
    /\ cmd = "none"
    /\ login[i].pc \notin {"idle", "returned", "panicked"}
    /\ ~login[i].ctxDone
    /\ login' = [login EXCEPT ![i].ctxDone = TRUE,
                              ![i].cancelledIn = login[i].pc]
    /\ UNCHANGED <<fs, storeVars, regVars, rootVars, keepVars, cmd, req, mux, port, crashed>>

\* select, case <-ctx.Done() (lines 84-85)
RecvDone(i) ==
    /\ Running
    /\ login[i].pc = "select"
    /\ login[i].ctxDone
    /\ login' = [login EXCEPT ![i] = Failed(@, "cancelled", "")]
    /\ UNCHANGED <<fs, storeVars, regVars, rootVars, keepVars, cmd, req, mux, port, crashed>>

AfterExchangeAlwaysSaves(l, ok, token) ==
    [l EXCEPT !.pc = "save", !.token = token, !.exchanges = @ + 1,
              !.exchanged = ok, !.trail = Append(@, "TokenExchanged")]

\* lines 89-92
AfterExchange(l, ok, token) ==
    IF ok
    THEN [l EXCEPT !.pc = "save", !.token = token, !.exchanges = @ + 1,
                   !.exchanged = TRUE, !.trail = Append(@, "TokenExchanged")]
    ELSE [Failed(l, "exchange", "") EXCEPT !.exchanges = @ + 1]

\* config.Exchange(ctx, authCode): the provider answers with a token or the
\* exchange fails, as it must once ctx is done
Exchange(i) ==
    /\ Running
    /\ login[i].pc = "exchange"
    /\ \E ok \in BOOLEAN, token \in Tokens :
        /\ ok => ~login[i].ctxDone
        /\ ~ok => token = BearerToken
        /\ login' = [login EXCEPT ![i] = AfterExchange(@, ok, token)]
    /\ UNCHANGED <<fs, storeVars, regVars, rootVars, keepVars, cmd, req, mux, port, crashed>>

\* SaveToken(token) (lines 95-97)
LoginSaveToken(i) ==
    /\ Running
    /\ login[i].pc = "save"
    /\ \E ioOK \in BOOLEAN :
        LET r == SaveToken(fs, login[i].token, ioOK) IN
        /\ fs' = r.fs
        /\ login' = [login EXCEPT ![i] =
                        IF r.err # NoErr THEN Failed(@, "save", "")
                        ELSE [@ EXCEPT !.pc = "shutdown",
                                       !.trail = Append(@, "Persisted")]]
    /\ UNCHANGED <<storeVars, regVars, rootVars, keepVars, cmd, req, mux, port, crashed>>

\* server.Shutdown(ctx) (line 101) closes the listener first
Shutdown(i) ==
    /\ Running
    /\ login[i].pc = "shutdown"
    /\ port' = IF port = i THEN NoLogin ELSE port
    /\ login' = [login EXCEPT ![i].pc = "drain", ![i].srv = "closed"]
    /\ UNCHANGED <<fs, storeVars, regVars, rootVars, keepVars, cmd, req, mux, crashed>>

\* a handler that has not returned keeps its connection active
Active(r) == req[r].pc \in {"sendErr", "sendCode"}

\* server.Shutdown(ctx) then waits until no connection is active or ctx is
\* done; Login discards its error and returns nil (lines 101-102)
ShutdownReturns(i) ==
    /\ Running
    /\ login[i].pc = "drain"
    /\ login[i].ctxDone \/ \A r \in Redirects : ~Active(r)
    /\ login' = [login EXCEPT ![i].pc = "returned",
                              ![i].res = [kind |-> "ok", cause |-> ""]]
    /\ UNCHANGED <<fs, storeVars, regVars, rootVars, keepVars, cmd, req, mux, port, crashed>>

\* handleAuthCommand up to the call of auth.Login (lines 998-1035): too few
\* arguments, another subcommand, no --secrets flag and an unreadable
\* secrets file all end in os.Exit(1)
AuthCommand ==
    /\ cmd = "start"
    /\ \E argsOK \in BOOLEAN, readOK \in BOOLEAN :
        cmd' = IF argsOK /\ readOK THEN "login" ELSE "exit1"
    /\ UNCHANGED <<fs, storeVars, regVars, rootVars, keepVars, login, req, mux, port, crashed>>

AfterLoginIgnoringFailure(res) == "secrets"

\* lines 1036-1039
AfterLogin(res) == IF res.kind = "ok" THEN "secrets" ELSE "exit1"

AuthCommandAfterLogin ==
    /\ cmd = "login"
    /\ login[1].pc = "returned"
    /\ cmd' = AfterLogin(login[1].res)
    /\ UNCHANGED <<fs, storeVars, regVars, rootVars, keepVars, login, req, mux, port, crashed>>

\* auth.SaveSecrets(*secretsPath) (lines 1042-1046): a failure is printed as
\* a warning and the command still ends normally
AuthCommandSaveSecrets ==
    /\ cmd = "secrets"
    /\ \E src \in SrcFiles, ioOK \in BOOLEAN :
        LET r == SaveSecrets(fs, src, ioOK) IN
        /\ fs' = r.fs
        /\ cmd' = "exit0"
        /\ storeRes' = [op |-> "SaveSecrets", account |-> LegacySlot,
                        err |-> r.err, val |-> [SaveSecrets |-> r.val],
                        trace |-> r.trace]
    /\ UNCHANGED <<opCount, saved, regVars, rootVars, keepVars, login, req, mux, port, crashed>>

InitLogin(c, holder) ==
    /\ cmd = c
    /\ login = [i \in Logins |-> NewLogin]
    /\ req = [r \in Redirects |-> NewRequest]
    /\ mux = NoLogin
    /\ port = holder
    /\ crashed = FALSE

----------------------------------------------------------------------------
(* GetConfigDir (pkg/auth/store.go) on the host.  The store operations      *)
(* above see the config directory as the root <<>> of fs; here it is a path *)
(* of the host, a sequence of components, NoPath being the empty string.    *)

ConfigDirName == <<".go-google-mcp">>

\* a directory named by GO_GOOGLE_MCP_CONFIG_DIR, the temporary directory a
\* test puts in BaseDir, and the home directory of the user
EnvPath == <<<<"srv">>, <<"mcp">>>>
TmpPath == <<<<"tmp">>>>
HomePath == <<<<"home">>>>

EnvNeverOverrides(env) == FALSE

\* envDir := os.Getenv("GO_GOOGLE_MCP_CONFIG_DIR"); envDir != "" (line 25)
EnvOverrides(env) == env # NoPath

\* GetConfigDir (lines 24-47) on host directories f; home = NoPath when
\* os.UserHomeDir() fails, mkdirOK is whether os.MkdirAll succeeds
GetConfigDirOn(f, env, base, home, mkdirOK) ==
    IF EnvOverrides(env)
    THEN IF mkdirOK
         THEN [fs |-> MkdirAll(f, env), err |-> NoErr, path |-> env]
         ELSE [fs |-> f, err |-> "io", path |-> NoPath]
    ELSE IF base = NoPath /\ home = NoPath
         THEN [fs |-> f, err |-> "nohome", path |-> NoPath]
         ELSE LET dir == Join(IF base # NoPath THEN base ELSE home,
                              <<ConfigDirName>>)
              IN  IF mkdirOK
                  THEN [fs |-> MkdirAll(f, dir), err |-> NoErr, path |-> dir]
                  ELSE [fs |-> f, err |-> "io", path |-> NoPath]

\* the outcome of one call: path and error, and whether os.Stat finds the
\* directory right after the call
NoDirCall == [path |-> NoPath, err |-> "none", stat |-> FALSE]

NoDirRes == [last |-> NoDirCall, prev |-> NoDirCall]

CallGetConfigDir ==
    /\ dirCalls < MaxDirCalls
    /\ \E mkdirOK \in BOOLEAN :
        LET r == GetConfigDirOn(hostFs, envDir, BaseDir, homeDir, mkdirOK) IN
        /\ hostFs' = r.fs
        /\ dirRes' = [last |-> [path |-> r.path, err |-> r.err,
                                stat |-> r.path \in r.fs.dirs],
                      prev |-> dirRes.last]
    /\ dirCalls' = dirCalls + 1
    /\ UNCHANGED <<fs, storeVars, regVars, loginVars, keepVars, envDir, BaseDir, homeDir>>

\* the directories are removed between two calls (os.RemoveAll(tmpDir))
RemoveAll ==
    /\ hostFs # EmptyFS
    /\ hostFs' = EmptyFS
    /\ UNCHANGED <<fs, storeVars, regVars, loginVars, keepVars, envDir, BaseDir, homeDir,
                   dirRes, dirCalls>>

InitRoot(envs, bases, homes) ==
    /\ envDir \in envs
    /\ BaseDir \in bases
    /\ homeDir \in homes
    /\ hostFs = EmptyFS
    /\ dirRes = NoDirRes
    /\ dirCalls = 0

----------------------------------------------------------------------------
(* keep.Service (pkg/services/keep/keep.go).  A note name is the id the    *)
(* server gave the note, with or without the prefix "notes/"; id 0 stands  *)
(* for the empty id, so [full |-> FALSE, id |-> 0] is the empty string.    *)

NoteNames == [full : BOOLEAN, id : 0..(MaxUpdates + 1)]

\* name == ""
EmptyName(name) == ~name.full /\ name.id = 0

\* if len(name) < 6 || name[:6] != "notes/" { name = "notes/" + name }
FullName(name) == [full |-> TRUE, id |-> name.id]

NoBody == [kind |-> "nil", content |-> ""]
Text(t) == [kind |-> "text", content |-> t]
List(items) == [kind |-> "list", content |-> items]

NoNote == [Name |-> [full |-> FALSE, id |-> 0], Title |-> "", Body |-> NoBody]

\* what one call of the Keep API leaves: the notes, the next id, the error
\* and the note returned
Api(n, next, e, v) == [notes |-> n, next |-> next, err |-> e, val |-> v]

\* s.srv.Notes.Get(name).Do(); apiOK is whether the request gets through
NotesGet(n, next, name, apiOK) ==
    IF apiOK /\ name.id \in DOMAIN n
    THEN Api(n, next, NoErr, n[name.id])
    ELSE Api(n, next, "api", NoNote)

\* s.srv.Notes.Create(note).Do(): the server names the note
NotesCreate(n, next, title, body, apiOK) ==
    IF apiOK
    THEN LET created == [Name |-> [full |-> TRUE, id |-> next],
                         Title |-> title, Body |-> body]
         IN  Api([i \in DOMAIN n \cup {next} |->
                     IF i = next THEN created ELSE n[i]],
                 next + 1, NoErr, created)
    ELSE Api(n, next, "api", NoNote)

\* s.srv.Notes.Delete(name).Do(): refused (the caller is not the owner, the
\* note is not there, the request fails) or done
NotesDelete(n, next, name, apiOK) ==
    IF apiOK /\ name.id \in DOMAIN n
    THEN Api([i \in DOMAIN n \ {name.id} |-> n[i]], next, NoErr, NoNote)
    ELSE Api(n, next, "api", NoNote)

GetNote(n, next, name, apiOK) ==
    IF EmptyName(name)
    THEN [notes |-> n, next |-> next, err |-> "required", val |-> NoNote,
          trace |-> <<>>]
    ELSE LET g == NotesGet(n, next, FullName(name), apiOK) IN
         [notes |-> g.notes, next |-> g.next, err |-> g.err, val |-> g.val,
          trace |-> <<"get">>]

DeleteNote(n, next, name, apiOK) ==
    IF EmptyName(name)
    THEN [notes |-> n, next |-> next, err |-> "required", val |-> NoNote,
          trace |-> <<>>]
    ELSE LET x == NotesDelete(n, next, FullName(name), apiOK) IN
         [notes |-> x.notes, next |-> x.next, err |-> x.err, val |-> x.val,
          trace |-> <<"delete">>]

\* UpdateNoteInput: "" and <<>> stand for the fields left out
NoteInputs == [Title : {"", "T2"}, BodyText : {"", "B2"},
               ListItems : {<<>>, <<"item">>}]

\* the title and the body of the replacement (lines 557-568)
MergedTitle(existing, in) == IF in.Title # "" THEN in.Title ELSE existing.Title

MergedBody(existing, in) ==
    IF in.BodyText # "" THEN Text(in.BodyText)
    ELSE IF Len(in.ListItems) > 0 THEN List(in.ListItems)
    ELSE existing.Body

CreateNeverFailed(c) == FALSE

\* created, err := s.srv.Notes.Create(newNote).Do(); err != nil (line 571)
CreateFailed(c) == c.err # NoErr

\* UpdateNote (lines 552-578): err is "" or the step that failed, named the
\* note the error message names, val the note returned
UpdateNote(n, next, name, in, getOK, createOK, deleteOK) ==
    LET g == GetNote(n, next, name, getOK) IN
    IF g.err # NoErr
    THEN [notes |-> g.notes, next |-> g.next, err |-> "get note",
          named |-> NoNote.Name, val |-> NoNote, trace |-> g.trace]
    ELSE LET c == NotesCreate(g.notes, g.next, MergedTitle(g.val, in),
                              MergedBody(g.val, in), createOK)
         IN  IF CreateFailed(c)
             THEN [notes |-> c.notes, next |-> c.next,
                   err |-> "create updated note", named |-> NoNote.Name,
                   val |-> NoNote, trace |-> g.trace \o <<"create">>]
             ELSE LET x == DeleteNote(c.notes, c.next, name, deleteOK) IN
                  IF x.err # NoErr
                  THEN [notes |-> x.notes, next |-> x.next,
                        err |-> "delete old note", named |-> c.val.Name,
                        val |-> NoNote,
                        trace |-> g.trace \o <<"create">> \o x.trace]
                  ELSE [notes |-> x.notes, next |-> x.next, err |-> NoErr,
                        named |-> NoNote.Name, val |-> c.val,
                        trace |-> g.trace \o <<"create">> \o x.trace]

\* the outcome of a call, with its arguments and the notes before it
NoUpdate == [name |-> NoNote.Name, in |-> [Title |-> "", BodyText |-> "",
                                           ListItems |-> <<>>],
             before |-> <<>>, err |-> "none", named |-> NoNote.Name,
             val |-> NoNote, trace |-> <<>>]

CallUpdateNote ==
    /\ updCalls < MaxUpdates
    /\ \E name \in NoteNames, in \in NoteInputs,
          getOK \in BOOLEAN, createOK \in BOOLEAN, deleteOK \in BOOLEAN :
        LET r == UpdateNote(notes, nextNote, name, in, getOK, createOK, deleteOK)
        IN  /\ notes' = r.notes
            /\ nextNote' = r.next
            /\ upd' = [name |-> name, in |-> in, before |-> notes,
                       err |-> r.err, named |-> r.named, val |-> r.val,
                       trace |-> r.trace]
    /\ updCalls' = updCalls + 1
    /\ UNCHANGED <<fs, storeVars, regVars, loginVars, rootVars>>

\* the notes of the user before the first call: one with a text body, or
\* one without a body
FirstNotes ==
    {[i \in {1} |-> [Name |-> [full |-> TRUE, id |-> 1], Title |-> "T1",
                     Body |-> b]] : b \in {Text("B1"), NoBody}}

InitKeep ==
    /\ notes = [i \in {1} |-> [Name |-> [full |-> TRUE, id |-> 1],
                               Title |-> "T1", Body |-> Text("B1")]]
    /\ nextNote = 2
    /\ upd = NoUpdate
    /\ updCalls = 0

----------------------------------------------------------------------------
(* Specifications *)

InitRegistry(multi) ==
    /\ multiAccount = multi
    /\ legacy = IF multi THEN Nil ELSE LegacyBundle
    /\ accounts = <<>>
    /\ mu = NoHolder
    /\ pc = [p \in Callers |-> "idle"]
    /\ arg = [p \in Callers |-> <<>>]
    /\ acct = [p \in Callers |-> <<>>]
    /\ listed = [p \in Callers |-> NoListed]
    /\ ret = [p \in Callers |-> NoRet]
    /\ factoryCalls = [a \in ResolveArgs |-> 0]
    /\ built = [a \in ResolveArgs |-> 0]
    /\ returned = [a \in ResolveArgs |-> {}]
    /\ hit = [p \in Callers |-> FALSE]
    /\ callsMade = 0
    /\ attempts = [p \in Callers |-> NoAttempts]

\* the server: NewLegacyRegistry or NewMultiAccountRegistry over the disk
\* left by "auth login" (shared client secrets saved) for some accounts
Init ==
    /\ fs \in {DiskWith(S, TRUE) : S \in SUBSET Accounts}
    /\ storeRes = NoStoreRes
    /\ opCount = 0
    /\ saved = <<>>
    /\ InitRoot({NoPath}, {NoPath}, {NoPath})
    /\ InitKeep
    /\ InitLogin("none", NoLogin)
    /\ \E multi \in BOOLEAN : InitRegistry(multi)

Next ==
    \/ \E p \in Callers, account \in ResolveArgs : Resolve(p, account)
    \/ \E p \in Callers : ResolveList(p)
    \/ \E p \in Callers : ResolveLock(p)
    \/ \E p \in Callers : ResolveLookup(p)
    \/ \E p \in Callers : ResolveAuth(p)
    \/ \E p \in Callers : ResolveConstruct(p)
    \/ \E p \in Callers : ResolveReturn(p)
    \/ ExternalLogin

Spec == Init /\ [][Next]_vars

\* the calls of the server over a config area that does not change while
\* they run, holding no account, one account or all of them
InitFair ==
    /\ fs \in {DiskWith({}, TRUE), DiskWith({<<"a">>}, TRUE),
                DiskWith(Accounts, TRUE)}
    /\ storeRes = NoStoreRes
    /\ opCount = 0
    /\ saved = <<>>
    /\ InitRoot({NoPath}, {NoPath}, {NoPath})
    /\ InitKeep
    /\ InitLogin("none", NoLogin)
    /\ \E multi \in BOOLEAN : InitRegistry(multi)

\* the next step of caller p inside Resolve
ResolveStep(p) ==
    \/ ResolveList(p)
    \/ ResolveLock(p)
    \/ ResolveLookup(p)
    \/ ResolveAuth(p)
    \/ ResolveConstruct(p)

NextFair ==
    \/ \E p \in Callers, account \in ResolveArgs : Resolve(p, account)
    \/ \E p \in Callers : ResolveStep(p)
    \/ \E p \in Callers : ResolveReturn(p)

\* the scheduler runs every goroutine that can take a step, and the
\* credential load and NewServiceSet return; a caller waiting for r.mu gets
\* it once the callers, which make MaxCalls calls in all, stop taking it
FairSpec ==
    InitFair /\ [][NextFair]_vars /\ \A p \in Callers : WF_vars(ResolveStep(p))

\* a registry built, in either mode, over a config area that holds no
\* account yet; accounts log in while the registry serves calls
InitMode ==
    /\ fs = DiskWith({}, TRUE)
    /\ storeRes = NoStoreRes
    /\ opCount = 0
    /\ saved = <<>>
    /\ InitRoot({NoPath}, {NoPath}, {NoPath})
    /\ InitKeep
    /\ InitLogin("none", NoLogin)
    /\ \E multi \in BOOLEAN : InitRegistry(multi)

SpecMode == InitMode /\ [][Next]_vars

\* the credential store on its own
InitStore ==
    /\ fs \in InitStoreDisks
    /\ storeRes = NoStoreRes
    /\ opCount = 0
    /\ saved = <<>>
    /\ InitRoot({NoPath}, {NoPath}, {NoPath})
    /\ InitKeep
    /\ InitLogin("none", NoLogin)
    /\ InitRegistry(TRUE)

NextStore ==
    \/ CallGetAccountDir
    \/ CallSaveTokenForAccount
    \/ CallLoadTokenForAccount
    \/ CallLoadSecretsForAccount
    \/ CallSaveSecretsForAccount

SpecStore == InitStore /\ [][NextStore]_vars

\* tokens: sequences of saves, loads and listings
InitTokens ==
    /\ fs \in {EmptyFS, CorruptDisk}
    /\ storeRes = NoStoreRes
    /\ opCount = 0
    /\ saved = <<>>
    /\ InitRoot({NoPath}, {NoPath}, {NoPath})
    /\ InitKeep
    /\ InitLogin("none", NoLogin)
    /\ InitRegistry(TRUE)

NextTokens ==
    \/ StepSaveToken
    \/ StepLoadToken
    \/ StepSaveTokenForAccount
    \/ StepLoadTokenForAccount
    \/ StepGetAccountDir
    \/ StepIsMultiAccount
    \/ StepListAccounts

SpecTokens == InitTokens /\ [][NextTokens]_vars

\* client secrets: sequences of copies and loads
InitSecrets ==
    /\ fs = EmptyFS
    /\ storeRes = NoStoreRes
    /\ opCount = 0
    /\ saved = <<>>
    /\ InitRoot({NoPath}, {NoPath}, {NoPath})
    /\ InitKeep
    /\ InitLogin("none", NoLogin)
    /\ InitRegistry(TRUE)

NextSecrets ==
    \/ StepSaveSecrets
    \/ StepLoadSecrets
    \/ StepSaveSecretsForAccount
    \/ StepLoadSecretsForAccount

SpecSecrets == InitSecrets /\ [][NextSecrets]_vars

\* a process that logs in: "auth login" (handleAuthCommand) or other code
\* calling auth.Login, the port being free or held by another process
InitLoginFlow ==
    /\ fs = EmptyFS
    /\ storeRes = NoStoreRes
    /\ opCount = 0
    /\ saved = <<>>
    /\ InitRoot({NoPath}, {NoPath}, {NoPath})
    /\ InitKeep
    /\ InitRegistry(TRUE)
    /\ \E c \in {"none", "start"}, holder \in {NoLogin, OtherProcess} :
          InitLogin(c, holder)

NextLogin ==
    \/ AuthCommand
    \/ \E i \in Logins : Login(i)
    \/ \E i \in Logins : ListenAndServe(i)
    \/ \E r \in Redirects : Callback(r)
    \/ \E i \in Logins, r \in Redirects : RecvCode(i, r)
    \/ \E i \in Logins, r \in Redirects : RecvErr(i, r)
    \/ \E i \in Logins : RecvListenErr(i)
    \/ \E i \in Logins : Cancel(i)
    \/ \E i \in Logins : RecvDone(i)
    \/ \E i \in Logins : Exchange(i)
    \/ \E i \in Logins : LoginSaveToken(i)
    \/ \E i \in Logins : Shutdown(i)
    \/ \E i \in Logins : ShutdownReturns(i)
    \/ AuthCommandAfterLogin
    \/ AuthCommandSaveSecrets

SpecLogin == InitLoginFlow /\ [][NextLogin]_vars

\* a process that asks for its config directory, with or without the
\* environment override, BaseDir and a home directory
InitConfigDir ==
    /\ fs = EmptyFS
    /\ storeRes = NoStoreRes
    /\ opCount = 0
    /\ saved = <<>>
    /\ InitLogin("none", NoLogin)
    /\ InitRegistry(TRUE)
    /\ InitRoot({NoPath, EnvPath}, {NoPath, TmpPath}, {NoPath, HomePath})
    /\ InitKeep

NextConfigDir ==
    \/ CallGetConfigDir
    \/ RemoveAll

SpecConfigDir == InitConfigDir /\ [][NextConfigDir]_vars

\* token operations and the secrets lookup of an account, on a config area
\* that is empty or holds the login of account "a"
InitReads ==
    /\ fs \in {EmptyFS, DiskWith({<<"a">>}, TRUE)}
    /\ storeRes = NoStoreRes
    /\ opCount = 0
    /\ saved = <<>>
    /\ InitRoot({NoPath}, {NoPath}, {NoPath})
    /\ InitKeep
    /\ InitLogin("none", NoLogin)
    /\ InitRegistry(TRUE)

NextReads == NextTokens \/ StepLoadSecretsForAccount

SpecReads == InitReads /\ [][NextReads]_vars

\* a user of the Keep tools editing notes
InitUpdateNote ==
    /\ fs = EmptyFS
    /\ storeRes = NoStoreRes
    /\ opCount = 0
    /\ saved = <<>>
    /\ InitRoot({NoPath}, {NoPath}, {NoPath})
    /\ InitLogin("none", NoLogin)
    /\ InitRegistry(TRUE)
    /\ notes \in FirstNotes
    /\ nextNote = 2
    /\ upd = NoUpdate
    /\ updCalls = 0

NextUpdateNote == CallUpdateNote

SpecUpdateNote == InitUpdateNote /\ [][NextUpdateNote]_vars

----------------------------------------------------------------------------
(* Properties of Registry.Resolve *)

\* all NumCallers callers resolved account A at once on a fresh registry and
\* hold their results
AllResolved(A) ==
    /\ multiAccount
    /\ callsMade = NumCallers
    /\ \A p \in Callers : pc[p] = "done" /\ arg[p] = A

FailedWith(kind) == {p \in Callers : ret[p].kind = kind}

\* C1 as stated: N concurrent Resolve(A) for a new account A cause exactly
\* one NewServiceSet construction and all callers get the same bundle, or,
\* construction failing, all callers get equivalent errors and nothing is
\* cached for A.
C1_ExactlyOneConstruction ==
    \A A \in Accounts : AllResolved(A) =>
        \/ /\ factoryCalls[A] = 1
           /\ \A p \in Callers : ret[p].kind = "ok"
           /\ \A p, q \in Callers : ret[p].ss = ret[q].ss
        \/ /\ \A p \in Callers : ret[p].kind # "ok"
           /\ \A p, q \in Callers : ret[p].kind = ret[q].kind
           /\ ~CacheHas(A)

\* C1 amended: N concurrent Resolve(A) for a new account A construct at
\* most one bundle successfully and every caller that gets a bundle gets the
\* cached one; a caller whose own attempt fails gets an auth or service-init
\* error and the next caller tries again, so NewServiceSet runs once per
\* failed attempt plus at most once successfully; with no failure it runs
\* exactly once, and when every attempt fails nothing is cached for A.
C1_ConcurrentResolve ==
    \A A \in Accounts : AllResolved(A) =>
        /\ built[A] <= 1
        /\ \A p \in Callers : ret[p].kind \in {"ok", "auth", "services"}
        /\ \A p \in Callers : ret[p].kind = "ok" =>
               CacheHas(A) /\ ret[p].ss = accounts[A]
        /\ (\A p \in Callers : ret[p].kind # "ok") => ~CacheHas(A)
        /\ (\A p \in Callers : ret[p].kind = "ok") => factoryCalls[A] = 1
        /\ factoryCalls[A] = built[A] + Cardinality(FailedWith("services"))

C1_Witness ==
    \E A \in Accounts :
        /\ AllResolved(A)
        /\ factoryCalls[A] = 1
        /\ \A p \in Callers : ret[p].kind = "ok" /\ ret[p].ss = accounts[A]

\* C2: in every reachable state of a multi-account registry at most one
\* ServiceSet has been constructed successfully for each account.
C2_AtMostOneBundle ==
    multiAccount => \A a \in ResolveArgs : built[a] <= 1

C2_Witness ==
    /\ multiAccount
    /\ \A a \in Accounts : built[a] = 1 /\ CacheHas(a)

\* C3: once Resolve(A) has returned a bundle, no later step returns another
\* bundle for A or invokes NewServiceSet for A again.
C3_SameBundleAfterFirst ==
    [][\A a \in Accounts : returned[a] # {} =>
          /\ returned'[a] = returned[a]
          /\ factoryCalls'[a] = factoryCalls[a]]_vars

C3_Witness ==
    \E p \in Callers :
        /\ multiAccount
        /\ callsMade = 2
        /\ pc[p] = "done" /\ hit[p]
        /\ arg[p] \in Accounts
        /\ ret[p] = Ok(accounts[arg[p]])
        /\ factoryCalls[arg[p]] = 1
        /\ \A q \in Callers \ {p} : pc[q] = "idle"

\* C4: a Resolve that fails in authorization or construction leaves
\* r.accounts unchanged and without an entry for its account, and a Resolve
\* that finds no entry attempts construction.
C4_FailuresNotCached ==
    [][\A p \in Callers :
          /\ (/\ pc[p] \in {"auth", "construct"}
              /\ pc'[p] = "done"
              /\ ret'[p].kind # "ok")
             => (accounts' = accounts /\ acct[p] \notin DOMAIN accounts')
          /\ (/\ pc[p] = "lookup"
              /\ pc'[p] # "lookup"
              /\ acct[p] \notin DOMAIN accounts)
             => pc'[p] = "auth"]_vars

\* a construction for a failed and a later Resolve(a) succeeded
C4_Witness ==
    \E a \in Accounts, p \in Callers :
        /\ multiAccount
        /\ factoryCalls[a] = 2
        /\ built[a] = 1
        /\ pc[p] = "done" /\ acct[p] = a /\ ret[p] = Ok(accounts[a])

\* C5: a legacy registry answers every Resolve, whatever the account string
\* and whatever came before, with the bundle given to NewLegacyRegistry and
\* no error.
C5_LegacyResolve ==
    ~multiAccount =>
        \A p \in Callers : /\ pc[p] \in {"idle", "done"}
                           /\ pc[p] = "done" => ret[p] = Ok(LegacyBundle)

C5_Witness ==
    /\ ~multiAccount
    /\ callsMade = MaxCalls
    /\ \E p, q \in Callers : /\ pc[p] = "done" /\ arg[p] = <<>>
                             /\ pc[q] = "done" /\ arg[q] = BadAccount

\* the accounts/ subdirectories that hold a token file
Configured(f) ==
    {n \in ReadDirNames(f, <<AccountsDirName>>) :
        /\ <<AccountsDirName, n>> \in f.dirs
        /\ <<AccountsDirName, n, TokenFileName>> \in DOMAIN f.files}

\* caller p leaves the listing step, ListAccounts having succeeded
Listing(p) ==
    pc[p] = "list" /\ pc'[p] # "list" /\ listed'[p].err = NoErr

\* C6: Resolve("") with no configured account fails with the
\* no-accounts-configured error, constructs nothing and leaves r.accounts
\* unchanged.
C6_NoAccounts ==
    [][\A p \in Callers : (Listing(p) /\ Configured(fs) = {}) =>
          /\ pc'[p] = "done"
          /\ ret'[p] = Err("noaccounts", <<>>)
          /\ accounts' = accounts
          /\ factoryCalls' = factoryCalls
          /\ built' = built]_vars

C6_Witness ==
    \E p \in Callers :
        /\ multiAccount
        /\ pc[p] = "done" /\ arg[p] = <<>>
        /\ ret[p].kind = "noaccounts"
        /\ Configured(fs) = {}

\* C7: Resolve("") that finds exactly one configured account X goes on as
\* Resolve(X), and the bundle it returns is the one cached for X, the same
\* one a Resolve(X) returns.
C7_AutoSelect ==
    multiAccount =>
        \A p \in Callers :
            (arg[p] = <<>> /\ listed[p].err = NoErr /\ Len(listed[p].val) = 1) =>
                LET X == listed[p].val[1] IN
                /\ pc[p] # "list" => acct[p] = X
                /\ (pc[p] = "done" /\ ret[p].kind = "ok") =>
                      /\ CacheHas(X)
                      /\ ret[p].ss = accounts[X]
                      /\ \A q \in Callers :
                            (pc[q] = "done" /\ arg[q] = X /\ ret[q].kind = "ok")
                               => ret[q].ss = ret[p].ss

C7_Witness ==
    \E p, q \in Callers :
        /\ multiAccount
        /\ pc[p] = "done" /\ arg[p] = <<>> /\ ret[p].kind = "ok"
        /\ pc[q] = "done" /\ arg[q] = acct[p] /\ ret[q].kind = "ok"
        /\ Configured(fs) = {acct[p]}

Range(s) == {s[i] : i \in 1..Len(s)}

\* C8: Resolve("") with two or more configured accounts fails with the
\* ambiguous-account error listing exactly the configured accounts, cached
\* or not, and constructs nothing.
C8_Ambiguous ==
    [][\A p \in Callers : (Listing(p) /\ Cardinality(Configured(fs)) >= 2) =>
          /\ pc'[p] = "done"
          /\ ret'[p].kind = "ambiguous"
          /\ Range(ret'[p].info) = Configured(fs)
          /\ Len(ret'[p].info) = Cardinality(Configured(fs))
          /\ ret'[p].info = listed'[p].val
          /\ accounts' = accounts
          /\ factoryCalls' = factoryCalls
          /\ built' = built]_vars

C8_Witness ==
    \E p \in Callers :
        /\ pc[p] = "done" /\ arg[p] = <<>>
        /\ ret[p].kind = "ambiguous"
        /\ Len(ret[p].info) >= 2
        /\ \E a \in Range(ret[p].info) : CacheHas(a)

----------------------------------------------------------------------------
(* Properties of the credential store *)

AccountOps == {"GetAccountDir", "SaveTokenForAccount", "LoadTokenForAccount",
               "LoadSecretsForAccount", "SaveSecretsForAccount"}

\* the name contains "..", "/", "\" or NUL
UnsafeName(n) ==
    \/ \E i \in 1..Len(n) : n[i] \in {"/", "\\", "NUL"}
    \/ \E i \in 1..(Len(n) - 1) : n[i] = "." /\ n[i + 1] = "."

\* C9: a store operation on an account name holding "..", "/", "\" or NUL
\* fails with a validation error and leaves the config area as it was.
C9_UnsafeNameRejected ==
    [][(opCount' = opCount + 1 /\ storeRes'.op \in AccountOps
            /\ UnsafeName(storeRes'.account)) =>
          /\ IsValidationError(storeRes'.err)
          /\ fs' = fs]_vars

\* C10: in every store operation on an account name the validation of the
\* name comes before any access to the file system.
C10_ValidationFirst ==
    storeRes.op \in AccountOps =>
        \A i \in 1..Len(storeRes.trace) :
            storeRes.trace[i] \in FsSteps =>
                \E j \in 1..(i - 1) : storeRes.trace[j] = "validate"

\* the slot was saved to and the last call, a load of it, met no I/O error
LoadedAfterSave(op, slot) ==
    /\ storeRes.op = op
    /\ storeRes.account = slot
    /\ slot \in DOMAIN saved
    /\ storeRes.err # "io"

LastSaved(slot) == saved[slot][Len(saved[slot])]

\* C11: LoadTokenForAccount(A) after SaveTokenForAccount(A, T), and
\* LoadToken() after SaveToken(T), return without error a token equal to the
\* T of the last save to that slot.
C11_TokenRoundTrip ==
    /\ \A A \in LoginNames :
          LoadedAfterSave("LoadTokenForAccount", A) =>
              storeRes.err = NoErr /\ StoreVal = LastSaved(A)
    /\ LoadedAfterSave("LoadToken", LegacySlot) =>
          storeRes.err = NoErr /\ StoreVal = LastSaved(LegacySlot)

\* account a was saved twice with different tokens, then loaded
C11_Witness ==
    \E A \in Accounts :
        /\ LoadedAfterSave("LoadTokenForAccount", A)
        /\ Len(saved[A]) = 2
        /\ saved[A][1] = BareToken /\ saved[A][2] = BearerToken
        /\ StoreVal = BearerToken

\* the accounts/ subdirectories whose token file parses
WithValidToken(f) ==
    {n \in Configured(f) :
        DecodeToken(f.files[<<AccountsDirName, n, TokenFileName>>]).err = NoErr}

\* C12: IsMultiAccount() is true if and only if some account directory
\* holds a valid token file; in particular it is false on an empty config
\* area and when accounts/ is empty or holds only directories without a token.
C12_IsMultiAccount ==
    (storeRes.op = "IsMultiAccount" /\ storeRes.err = NoErr) =>
        (StoreVal <=> WithValidToken(fs) # {})

\* the accounts a token was saved for
SavedAccounts == DOMAIN saved \ {LegacySlot}

\* C13: ListAccounts() returns exactly the accounts/ subdirectories holding
\* a token file, each once, nothing when accounts/ is absent, and every
\* account SaveTokenForAccount has succeeded for.
C13_ListAccounts ==
    (storeRes.op = "ListAccounts" /\ storeRes.err = NoErr) =>
        /\ Range(StoreVal) = Configured(fs)
        /\ Len(StoreVal) = Cardinality(Configured(fs))
        /\ <<AccountsDirName>> \notin fs.dirs => StoreVal = <<>>
        /\ SavedAccounts \subseteq Range(StoreVal)

\* C14: LoadSecretsForAccount(A) returns the secrets of A when A has its
\* own file, whether or not the shared file exists, else the shared secrets,
\* and fails (not found) only when neither file exists.
C14_SecretsLookup ==
    \A A \in LoginNames :
        (/\ storeRes.op = "LoadSecretsForAccount"
         /\ storeRes.account = A
         /\ storeRes.err # "io") =>
            LET perAccount == Join(<<>>, <<AccountsDirName, A, SecretsFileName>>)
                shared == <<SecretsFileName>>
            IN  IF FileExists(fs, perAccount)
                THEN storeRes.err = NoErr /\ StoreVal = fs.files[perAccount]
                ELSE IF FileExists(fs, shared)
                     THEN storeRes.err = NoErr /\ StoreVal = fs.files[shared]
                     ELSE storeRes.err = "notexist"

\* both files exist with different contents and the account's own is returned
C14_Witness ==
    \E A \in Accounts :
        /\ storeRes.op = "LoadSecretsForAccount" /\ storeRes.account = A
        /\ FileExists(fs, <<SecretsFileName>>)
        /\ FileExists(fs, <<AccountsDirName, A, SecretsFileName>>)
        /\ fs.files[<<SecretsFileName>>] = Bytes("S1")
        /\ storeRes.err = NoErr /\ StoreVal = Bytes("S2")

----------------------------------------------------------------------------
(* Properties of the login flow *)

\* request r reached the handler while the Login it belongs to waited in
\* its select
ArrivedAwaiting(r) == req[r].pc # "idle" /\ req[r].during = "select"

Persisted(i) == \E k \in 1..Len(login[i].trail) : login[i].trail[k] = "Persisted"

TokenOnDisk == FileExists(fs, <<TokenFileName>>)

MismatchError == [kind |-> "server", cause |-> "mismatch"]
MissingCodeError == [kind |-> "server", cause |-> "nocode"]

\* C15 as stated: when a redirect arrives whose state parameter differs
\* from the state token, the flow fails with the mismatch error, the handler
\* answers with an error and no token is written, code or no code.
C15_CsrfMismatchFails ==
    \A r \in Redirects :
        (ArrivedAwaiting(r) /\ req[r].state = "bad") =>
            /\ req[r].resp = "400 State token mismatch"
            /\ ~Persisted(mux) /\ ~TokenOnDisk
            /\ login[mux].pc = "returned" => login[mux].res = MismatchError

\* C15 amended: the handler of a redirect whose state parameter differs
\* from the state token writes the 400 response and offers Login the
\* mismatch error only, never the code of that redirect; when Login takes the
\* error it returns it without an exchange and without writing a token.
\* Login takes something else, and may go on to write a token, only when the
\* code of a redirect with matching state or the cancellation was ready too.
C15_CsrfMismatch ==
    \A r \in Redirects :
        (req[r].pc # "idle" /\ req[r].state = "bad") =>
            /\ req[r].resp = "400 State token mismatch"
            /\ req[r].pc \in {"sendErr", "done"}
            /\ login[mux].from # r
            /\ req[r].pc = "done" =>
                  /\ login[mux].res = MismatchError
                  /\ login[mux].exchanges = 0
                  /\ ~Persisted(mux) /\ ~TokenOnDisk
            /\ login[mux].pc = "returned" =>
                  \/ login[mux].res = MismatchError
                  \/ login[mux].res.kind = "cancelled"
                  \/ /\ login[mux].res.kind = "server"
                     /\ \E q \in Redirects \ {r} : req[q].pc = "done"
                  \/ /\ login[mux].from \in Redirects \ {r}
                     /\ req[login[mux].from].state = "good"

\* a redirect with a wrong state and a code made Login fail
C15_Witness ==
    \E r \in Redirects :
        /\ req[r].pc = "done" /\ req[r].state = "bad" /\ req[r].code # ""
        /\ login[mux].pc = "returned" /\ login[mux].res = MismatchError
        /\ ~TokenOnDisk

\* C16 as stated: when a redirect with the right state and no code arrives,
\* the flow fails with the missing-code error, no exchange is attempted and
\* no token is written.
C16_MissingCodeFails ==
    \A r \in Redirects :
        (ArrivedAwaiting(r) /\ req[r].state = "good" /\ req[r].code = "") =>
            /\ login[mux].exchanges = 0 /\ login[mux].pc # "exchange"
            /\ ~Persisted(mux) /\ ~TokenOnDisk
            /\ login[mux].pc = "returned" => login[mux].res = MissingCodeError

\* C16 amended: the handler of a redirect with the right state and no code
\* offers Login the missing-code error and no code; when Login takes the
\* error it returns it without an exchange and without writing a token.
\* Login takes something else only when another redirect's code or error or
\* the cancellation was ready too.
C16_MissingCode ==
    \A r \in Redirects :
        (req[r].pc # "idle" /\ req[r].state = "good" /\ req[r].code = "") =>
            /\ req[r].resp = "Error: code not found in URL"
            /\ req[r].pc \in {"sendErr", "done"}
            /\ login[mux].from # r
            /\ req[r].pc = "done" =>
                  /\ login[mux].res = MissingCodeError
                  /\ login[mux].exchanges = 0
                  /\ ~Persisted(mux) /\ ~TokenOnDisk
            /\ login[mux].pc = "returned" =>
                  \/ login[mux].res = MissingCodeError
                  \/ login[mux].res.kind = "cancelled"
                  \/ /\ login[mux].res.kind = "server"
                     /\ \E q \in Redirects \ {r} : req[q].pc = "done"
                  \/ /\ login[mux].from \in Redirects \ {r}
                     /\ req[login[mux].from].code # ""

C16_Witness ==
    \E r \in Redirects :
        /\ req[r].pc = "done" /\ req[r].state = "good" /\ req[r].code = ""
        /\ login[mux].pc = "returned" /\ login[mux].res = MissingCodeError
        /\ login[mux].exchanges = 0 /\ ~TokenOnDisk

\* C17: a Login whose context is cancelled while it waits for the redirect
\* returns the cancellation error, its listener is closed and no token is
\* written.
C17_CancelClosesListener ==
    \A i \in Logins :
        (login[i].cancelledIn = "select" /\ login[i].pc = "returned") =>
            /\ login[i].res.kind = "cancelled"
            /\ login[i].srv \notin {"starting", "listening"}
            /\ port # i
            /\ ~Persisted(i)

\* C18: a Login called while another Login of the process awaits its
\* redirect fails to bind the port and returns that error to its caller.
C18_SecondLoginAddressInUse ==
    \A i \in Logins :
        (/\ login[i].concurrent
         /\ login[i].pc \in {"returned", "panicked"}) =>
            login[i].res = [kind |-> "server", cause |-> "bind"]

FlowPath == <<"Idle", "AwaitingRedirect", "CodeReceived", "TokenExchanged",
              "Persisted">>

\* C19: a token is written only at the end of the path Idle,
\* AwaitingRedirect, CodeReceived, TokenExchanged, Persisted, for a code that
\* came with the right state and after the exchange succeeded; a Login that
\* returns an exchange error has written no token; a Login that returns nil
\* has saved the token of the exchange and closed its listener.
C19_PersistOnlyAfterExchange ==
    /\ TokenOnDisk => \E i \in Logins : Persisted(i)
    /\ \A i \in Logins :
          /\ Persisted(i) =>
                /\ login[i].trail = FlowPath
                /\ login[i].from \in Redirects
                /\ req[login[i].from].state = "good"
                /\ req[login[i].from].code # ""
                /\ login[i].exchanged
                /\ fs.files[<<TokenFileName>>] = EncodeToken(login[i].token)
          /\ login[i].res.kind = "exchange" => ~Persisted(i) /\ ~TokenOnDisk
          /\ login[i].res.kind = "ok" =>
                /\ Persisted(i)
                /\ login[i].srv = "closed"
                /\ port # i

C19_Witness ==
    \E i \in Logins :
        /\ login[i].pc = "returned" /\ login[i].res.kind = "ok"
        /\ TokenOnDisk
        /\ DecodeToken(fs.files[<<TokenFileName>>]).val = BearerToken
        /\ port = NoLogin

SecretsOnDisk == FileExists(fs, <<SecretsFileName>>)

LoginFailed == login[1].pc = "returned" /\ login[1].res.kind # "ok"

----------------------------------------------------------------------------
(* Further properties of the registry *)

\* the errors auth.GetClientOptionsForAccount can return for the account
AuthErrors(f, account) ==
    {GetClientOptionsForAccount(f, account, ioOK, parseOK).err :
        ioOK \in BOOLEAN, parseOK \in BOOLEAN} \ {NoErr}

\* C21: on a cache miss a failure to obtain authorization makes Resolve
\* return the auth error wrapping that failure, and a failure of
\* NewServiceSet the service-init error; either is returned after one
\* authorization attempt and at most one NewServiceSet invocation, no call
\* ever makes more than one of each, and r.accounts is left as it was.
C21_ConstructionErrors ==
    [][\A p \in Callers :
          /\ attempts'[p].auth <= 1
          /\ attempts'[p].factory <= 1
          /\ (pc[p] = "auth" /\ pc'[p] = "done") =>
                /\ ret'[p].kind = "auth"
                /\ ret'[p].ss = Nil
                /\ ret'[p].cause \in AuthErrors(fs, acct[p])
                /\ attempts'[p] = [auth |-> 1, factory |-> 0]
                /\ accounts' = accounts
          /\ (pc[p] = "construct" /\ pc'[p] = "done" /\ ret'[p].kind # "ok") =>
                /\ ret'[p].kind = "services"
                /\ ret'[p].ss = Nil
                /\ attempts'[p] = [auth |-> 1, factory |-> 1]
                /\ accounts' = accounts]_vars

\* one call failed in authorization (no token for its account), another in
\* NewServiceSet, and nothing is cached
C21_Witness ==
    \E p, q \in Callers :
        /\ multiAccount
        /\ pc[p] = "done" /\ ret[p].kind = "auth" /\ ret[p].cause = "notexist"
        /\ attempts[p] = [auth |-> 1, factory |-> 0]
        /\ pc[q] = "done" /\ ret[q].kind = "services"
        /\ attempts[q] = [auth |-> 1, factory |-> 1]
        /\ accounts = <<>>

\* caller p is between its failed cache lookup and the end of its construction
Constructing(p) == pc[p] \in {"auth", "construct"}

\* C23 as stated: while a construction for account A is in progress, a
\* Resolve(B) for another account B does not have to wait for it: when it
\* asks for the mutex it gets it.
C23_OtherAccountsUnaffected ==
    \A p, q \in Callers :
        (Constructing(p) /\ pc[q] = "lock" /\ acct[q] # acct[p]) =>
            ENABLED ResolveLock(q)

\* C23 amended: while a construction for account A is in progress its
\* caller holds the registry mutex, no other call is past r.mu.Lock(), and a
\* Resolve(B) for another account B that has reached r.mu.Lock() cannot go
\* on before the construction for A has succeeded or failed.
C23_OtherAccountsWait ==
    \A p \in Callers : Constructing(p) =>
        /\ mu = p
        /\ \A q \in Callers \ {p} :
              /\ pc[q] \in {"idle", "list", "lock", "done"}
              /\ pc[q] = "lock" => ~ENABLED ResolveLock(q)

\* a Resolve(B) waits at the mutex while the bundle of A is constructed
C23_Witness ==
    \E p, q \in Callers :
        /\ pc[p] = "construct" /\ pc[q] = "lock"
        /\ acct[p] \in Accounts /\ acct[q] \in Accounts
        /\ acct[q] # acct[p]
        /\ ~CacheHas(acct[q])

\* the callers inside the section between r.mu.Lock() and the deferred
\* r.mu.Unlock(), where r.accounts is looked up and assigned
InSection == {p \in Callers : pc[p] \in {"lookup", "auth", "construct"}}

\* C24: a caller is inside the lookup-and-construct section exactly while it
\* holds r.mu, so at most one caller is inside it and no two constructions,
\* for the same or for different accounts, are in progress together; and
\* r.accounts changes only in a step of the caller holding r.mu.
C24_MutualExclusion ==
    /\ [](/\ Cardinality(InSection) <= 1
          /\ \A p \in Callers : p \in InSection <=> mu = p
          /\ mu \in Callers \cup {NoHolder})
    /\ [][accounts' # accounts =>
            \E p \in Callers : mu = p /\ pc[p] = "construct" /\ pc'[p] = "done"]_vars

\* two calls for the same new account: one is authorizing, the other waits
C24_Witness ==
    \E p, q \in Callers :
        /\ pc[p] = "auth" /\ mu = p
        /\ pc[q] = "lock"
        /\ acct[p] = acct[q] /\ acct[p] \in Accounts

\* every call made so far has returned
AllReturned == \A p \in Callers : pc[p] \in {"idle", "done"}

\* C25: under fair scheduling, with a credential load and a NewServiceSet
\* that return, every Resolve call returns, whether by a cache hit, an auth
\* error, a service-init error or a new bundle: the callers making finitely
\* many calls, from some point on all calls have returned and r.mu is free;
\* and a caller that has returned never holds r.mu.
C25_ResolveReturns ==
    /\ <>[](AllReturned /\ mu = NoHolder)
    /\ [](\A p \in Callers : pc[p] \in {"idle", "done"} => mu # p)

\* one call has failed in authorization, the next has built a bundle, and
\* the mutex is free
C25_Witness ==
    \E p, q \in Callers :
        /\ callsMade = MaxCalls
        /\ pc[p] = "done" /\ ret[p].kind = "auth"
        /\ pc[q] = "done" /\ ret[q].kind = "ok" /\ ~hit[q]
        /\ mu = NoHolder

\* C26: a bundle in r.accounts or returned by a multi-account Resolve has
\* all nine clients, and an error comes with no bundle; an entry is added to
\* r.accounts only by the step in which NewServiceSet succeeded, and it is
\* that bundle; an entry, once added, is never changed or removed.
C26_NoPartialBundle ==
    /\ [](multiAccount =>
            /\ \A a \in DOMAIN accounts :
                  accounts[a] # Nil /\ accounts[a].clients = Services
            /\ \A p \in Callers :
                  /\ ret[p].kind = "ok" => ret[p].ss.clients = Services
                  /\ ret[p].kind # "ok" => ret[p].ss = Nil)
    /\ [][/\ \A a \in DOMAIN accounts :
               a \in DOMAIN accounts' /\ accounts'[a] = accounts[a]
          /\ \A a \in DOMAIN accounts' \ DOMAIN accounts :
               /\ built'[a] = built[a] + 1
               /\ accounts'[a] = NewServiceSet(NextId(a), 0).ss]_vars

\* a bundle is cached for one account and was handed out, and the
\* construction for another account failed and left nothing
C26_Witness ==
    \E p, q \in Callers :
        /\ pc[p] = "done" /\ ret[p].kind = "ok"
        /\ CacheHas(acct[p]) /\ ret[p].ss = accounts[acct[p]]
        /\ accounts[acct[p]].clients = Services
        /\ pc[q] = "done" /\ ret[q].kind = "services" /\ ret[q].ss = Nil
        /\ ~CacheHas(acct[q])

\* caller p has not touched the credential store in its calls: no
\* listing, no credential load, no bundle construction
StoreUntouched(p) ==
    /\ pc[p] \in {"idle", "done"}
    /\ listed[p] = NoListed
    /\ attempts[p] = NoAttempts

\* C30: the mode of a registry is fixed at construction: no step of a
\* Resolve call and no login changing the config area changes multiAccount
\* or the legacy bundle, and a legacy registry answers every call with its
\* bundle without listing accounts, loading credentials or building
\* services, whatever accounts the config area has come to hold.
C30_ModeFixed ==
    /\ [](~multiAccount =>
            /\ legacy = LegacyBundle
            /\ accounts = <<>>
            /\ \A p \in Callers :
                  /\ StoreUntouched(p)
                  /\ pc[p] = "done" => ret[p] = Ok(LegacyBundle))
    /\ [][multiAccount' = multiAccount /\ legacy' = legacy]_vars

\* a legacy registry built when no account was configured, after logins
\* created both accounts: it still is legacy and has answered with its bundle
C30_Witness ==
    /\ ~multiAccount
    /\ Configured(fs) = Accounts
    /\ IsMultiAccount(fs, TRUE).val
    /\ \E p \in Callers : pc[p] = "done" /\ ret[p] = Ok(LegacyBundle)

----------------------------------------------------------------------------
(* Further properties of the credential store *)

ReadOps == {"GetAccountDir", "LoadTokenForAccount", "LoadSecretsForAccount"}

\* no token file in the directory GetAccountDir gives the account
HasNoToken(f, account) ==
    ~FileExists(f, Join(GetAccountDir(f, account, TRUE).val, <<TokenFileName>>))

\* what ListAccounts() and IsMultiAccount() answer on f, whether or not the
\* config directory can be made
StoreListing(f) ==
    [ioOK \in BOOLEAN |->
        <<ListAccounts(f, ioOK).err, ListAccounts(f, ioOK).val,
          IsMultiAccount(f, ioOK).err, IsMultiAccount(f, ioOK).val>>]

\* the last store call was a read operation for a valid account name
ReadCall ==
    /\ storeRes.op \in ReadOps
    /\ validateAccountName(storeRes.account) = "ok"

\* C29: GetAccountDir, LoadTokenForAccount and LoadSecretsForAccount, called
\* with a valid account name that has no token, leave the answers of
\* ListAccounts() and IsMultiAccount() as they were, and the account is not
\* among the accounts listed, although its directory may have been created.
C29_ReadsKeepListing ==
    [][(opCount' # opCount /\ ReadCall' /\ HasNoToken(fs, storeRes'.account)) =>
          /\ StoreListing(fs') = StoreListing(fs)
          /\ \A i \in 1..Len(ListAccounts(fs', TRUE).val) :
                ListAccounts(fs', TRUE).val[i] # storeRes'.account]_vars

\* a read for account "b" made its directory next to the login of "a":
\* the directory is there without a token and only "a" is listed
C29_Witness ==
    /\ ReadCall /\ storeRes.account = <<"b">>
    /\ storeRes.err \in {NoErr, "notexist"}
    /\ GetAccountDir(EmptyFS, <<"b">>, TRUE).val \in fs.dirs
    /\ HasNoToken(fs, <<"b">>)
    /\ ListAccounts(fs, TRUE).val = <<<<"a">>>>
    /\ IsMultiAccount(fs, TRUE).val

----------------------------------------------------------------------------
(* Further properties of Login *)

\* the Login whose select could still receive from the handler of request
\* r: Login runs its select once, so a handler found sending while that
\* Login is anywhere else stays blocked for the rest of the process
Receivable(r) == mux \in Logins /\ login[mux].pc = "select"

\* C28: every invocation of the /callback handler completes, whatever the
\* number and order of the redirects, and a Login that has saved its token
\* returns: in a running process a handler that is sending its code or its
\* error always has a Login in its select to receive it, and a Login that
\* waits in server.Shutdown with a context that is never cancelled has no
\* active handler to wait for.
C28_HandlersComplete ==
    Running =>
        /\ \A r \in Redirects : Active(r) => Receivable(r)
        /\ \A i \in Logins :
              login[i].pc = "drain" /\ cmd = "login" => ENABLED ShutdownReturns(i)

----------------------------------------------------------------------------
(* Properties of keep.Service.UpdateNote *)

\* the calls of the Keep API the last UpdateNote made
Attempted(call) == \E i \in 1..Len(upd.trace) : upd.trace[i] = call

\* C27: UpdateNote deletes the old note only after the replacement has been
\* created: a delete is attempted only as the third call, after get and
\* create, with the created note on the server; when get or create fails
\* the notes are as they were and no delete is attempted; when the delete
\* fails the error names the new note and both notes exist; when all three
\* succeed the old note is gone and the new one is returned.
C27_UpdateNoteOrdering ==
    upd.err # "none" =>
        LET old == upd.name.id
            newIds == DOMAIN notes \ DOMAIN upd.before
        IN  /\ Attempted("delete") =>
                /\ upd.trace = <<"get", "create", "delete">>
                /\ newIds # {}
            /\ upd.err \in {"get note", "create updated note"} =>
                /\ notes = upd.before
                /\ ~Attempted("delete")
            /\ upd.err = "delete old note" =>
                /\ Attempted("delete")
                /\ upd.named.full /\ newIds = {upd.named.id}
                /\ old \in DOMAIN notes /\ notes[old] = upd.before[old]
            /\ upd.err = NoErr =>
                /\ Attempted("delete")
                /\ newIds = {upd.val.Name.id}
                /\ notes[upd.val.Name.id] = upd.val
                /\ upd.val.Title = MergedTitle(upd.before[old], upd.in)
                /\ upd.val.Body = MergedBody(upd.before[old], upd.in)
                /\ old \notin DOMAIN notes

\* a delete that failed after the replacement was created: the error names
\* the new note, and the old and the new note are both on the server
C27_Witness ==
    /\ upd.err = "delete old note"
    /\ upd.trace = <<"get", "create", "delete">>
    /\ {upd.name.id, upd.named.id} \subseteq DOMAIN notes
    /\ upd.name.id # upd.named.id

----------------------------------------------------------------------------
(* Properties of GetConfigDir *)

\* C22: a non-empty GO_GOOGLE_MCP_CONFIG_DIR is the directory returned,
\* whatever BaseDir and the home directory are; without it the directory is
\* .go-google-mcp below BaseDir, or below the home directory when BaseDir is
\* empty; the directory exists after a successful call, and a call after a
\* successful call returns the same path.
C22_ConfigDir ==
    LET last == dirRes.last
        prev == dirRes.prev
    IN  /\ envDir # NoPath => last.err # "nohome"
        /\ last.err = NoErr =>
              /\ last.path = IF envDir # NoPath THEN envDir
                             ELSE Join(IF BaseDir # NoPath THEN BaseDir
                                                          ELSE homeDir,
                                       <<ConfigDirName>>)
              /\ last.path # NoPath
              /\ last.stat
              /\ prev.err = NoErr => last.path = prev.path

\* the override is set next to BaseDir and a home directory, and two calls
\* in a row returned it, the directory having been removed in between
C22_Witness ==
    /\ envDir = EnvPath /\ BaseDir = TmpPath /\ homeDir = HomePath
    /\ dirCalls = 2
    /\ dirRes.prev = [path |-> EnvPath, err |-> NoErr, stat |-> TRUE]
    /\ dirRes.last = dirRes.prev
    /\ hostFs.dirs = Prefixes(EnvPath)

====
